---- MODULE Spec2Model ----
(***************************************************************************)
(* Live auction server (payment-enabled variant, src/unnamed/part_001):    *)
(* events, items, connection sessions, the host/bidder command handlers,   *)
(* the lazy close in placeBid and the periodic expiry sweep.               *)
(*                                                                         *)
(* Every socket.io handler runs to completion on the single Node.js event  *)
(* loop, so each handler is one atomic action.  Date.now() is the variable *)
(* `now`, advanced by the Tick action.                                     *)
(***************************************************************************)
EXTENDS Integers, Sequences, FiniteSets, TLC

(***************************************************************************)
(* Bounds of the model.                                                    *)
(***************************************************************************)
MaxEvents == 2      \* events the host may create
MaxItems == 1       \* items the host may create (over all events)
MaxBids == 2        \* accepted bids kept per item
MaxTicks == 3       \* clock steps
AuctionEvents == 1  \* events of the auction specification

(***************************************************************************)
(* Program constants.                                                      *)
(***************************************************************************)
ADMIN_TOKEN == "1234"
MsPerSecond == 1000
DefaultDurationSeconds == 60
PaymentWindowMs == 2 * 60 * 1000
ClockStep == DefaultDurationSeconds * MsPerSecond
StartTime == ClockStep
MaxTime == StartTime + MaxTicks * ClockStep

\* JavaScript null: for strings, for ids (Number(null) = 0, and 0 is falsy
\* like null), and for times (never compared as a number: see Truthy).
Null == "null"
NullId == 0
NullTime == 0 - 1

Conns == {"c1", "c2", "c3"}
Names == {"Alice", "Bob"}

(***************************************************************************)
(* IEEE-754 doubles.  A finite double is written k + f * 2^-52 with k an   *)
(* integer and f a small natural: [k, f].  Number.EPSILON = 2^-52 is       *)
(* [0, 1].  The doubles in [k, k+1), k >= 1, are spaced Ulp(k) units of    *)
(* 2^-52 apart; an exact sum that falls between two of them is rounded to  *)
(* the nearest, ties to the even significand.                              *)
(***************************************************************************)
D(k, f) == [nan |-> FALSE, k |-> k, f |-> f]
NaN == [nan |-> TRUE, k |-> 0, f |-> 0]
Zero == D(0, 0)
EPSILON == D(0, 1)

isFinite(x) == ~x.nan

RECURSIVE Ulp(_)
Ulp(k) == IF k < 2 THEN 1 ELSE 2 * Ulp(k \div 2)

FlRound(k, f) ==
    IF k < 1 THEN D(k, f)
    ELSE LET u == Ulp(k)
             q == f \div u
             r == f % u
         IN  IF 2 * r < u THEN D(k, q * u)
             ELSE IF 2 * r > u THEN D(k, (q + 1) * u)
             ELSE IF q % 2 = 0 THEN D(k, q * u)
             ELSE D(k, (q + 1) * u)

FlAdd(x, y) == FlRound(x.k + y.k, x.f + y.f)

FlLess(x, y) == x.k < y.k \/ (x.k = y.k /\ x.f < y.f)
FlLeq(x, y) == x = y \/ FlLess(x, y)
FlMax(x, y) == IF FlLess(x, y) THEN y ELSE x

\* JavaScript truthiness of a string-or-null, an id-or-null, a time-or-null.
Truthy(s) == s # Null /\ s # ""
TruthyId(i) == i # NullId
TruthyTime(t) == t # NullTime /\ t # 0

(***************************************************************************)
(* State.                                                                  *)
(***************************************************************************)
VARIABLES
    now,            \* Date.now()
    nextEventId,
    nextItemId,
    events,         \* sequence of events, each owning its sequence of items
    sockets,        \* socket.data of each connection
    ack             \* the acknowledgment of the last command

vars == <<now, nextEventId, nextItemId, events, sockets, ack>>

NoSocket ==
    [connected |-> FALSE, role |-> "guest", eventId |-> NullId,
     nameLocked |-> FALSE, displayName |-> Null, paymentProfile |-> Null]

NewSocket == [NoSocket EXCEPT !.connected = TRUE]

NoAck == [op |-> "none", conn |-> "none", ok |-> TRUE, error |-> "", item |-> NullId]

Ok(op, c, itemId) == [op |-> op, conn |-> c, ok |-> TRUE, error |-> "", item |-> itemId]
Fail(op, c, itemId, e) == [op |-> op, conn |-> c, ok |-> FALSE, error |-> e, item |-> itemId]

Init ==
    /\ now = StartTime
    /\ nextEventId = 1
    /\ nextItemId = 1
    /\ events = <<>>
    /\ sockets = [c \in Conns |-> NoSocket]
    /\ ack = NoAck

(***************************************************************************)
(* Helpers.                                                                *)
(***************************************************************************)
hasEventIn(E, id) == \E x \in DOMAIN E : E[x].id = id
getEventIn(E, id) == E[CHOOSE x \in DOMAIN E : E[x].id = id]
hasEvent(id) == hasEventIn(events, id)
getEvent(id) == getEventIn(events, id)

hasItem(ev, itemId) == \E y \in DOMAIN ev.items : ev.items[y].id = itemId
getItem(ev, itemId) == ev.items[CHOOSE y \in DOMAIN ev.items : ev.items[y].id = itemId]

isSiteAdmin(token) == Truthy(ADMIN_TOKEN) /\ token = ADMIN_TOKEN

\* events with event eid replaced by ev
withEvent(E, ev) == [x \in DOMAIN E |-> IF E[x].id = ev.id THEN ev ELSE E[x]]

\* ev with its item it.id replaced by it
withItem(ev, it) ==
    [ev EXCEPT !.items = [y \in DOMAIN @ |-> IF @[y].id = it.id THEN it ELSE @[y]]]


(***************************************************************************)
(* Connection, authentication, payment profile.                            *)
(***************************************************************************)
Connect(c) ==
    /\ ~sockets[c].connected
    /\ sockets' = [sockets EXCEPT ![c] = NewSocket]
    /\ UNCHANGED <<now, nextEventId, nextItemId, events, ack>>

Auth(c, role, password) ==
    /\ sockets[c].connected
    /\ IF role = "host" /\ ~isSiteAdmin(password)
       THEN /\ ack' = Fail("auth", c, NullId, "Invalid host password")
            /\ UNCHANGED sockets
       ELSE /\ sockets' = [sockets EXCEPT ![c].role =
                              IF role \in {"host", "bidder"} THEN role ELSE "guest"]
            /\ ack' = Ok("auth", c, NullId)
    /\ UNCHANGED <<now, nextEventId, nextItemId, events>>

ProfileSetup(c, name, email) ==
    /\ sockets[c].connected
    /\ IF ~Truthy(name)
       THEN /\ ack' = Fail("profile:setup", c, NullId, "Name is required")
            /\ UNCHANGED sockets
       ELSE IF ~Truthy(email)
       THEN /\ ack' = Fail("profile:setup", c, NullId, "Email is required")
            /\ UNCHANGED sockets
       ELSE /\ sockets' = [sockets EXCEPT ![c].displayName = name,
                                          ![c].paymentProfile = name]
            /\ ack' = Ok("profile:setup", c, NullId)
    /\ UNCHANGED <<now, nextEventId, nextItemId, events>>

(***************************************************************************)
(* Event registry: host:createEvent.                                       *)
(***************************************************************************)
NewEvent(id, isProtected, password) ==
    [id |-> id, isProtected |-> isProtected, password |-> password,
     items |-> <<>>, minIncrement |-> Zero, currentLotId |-> NullId,
     participants |-> {}]

CreateEventError(c, name, location, isProtected, password) ==
    IF sockets[c].role # "host" THEN "Host only"
    ELSE IF ~Truthy(name) THEN "Event name is required"
    ELSE IF ~Truthy(location) THEN "Event location is required"
    ELSE IF isProtected /\ ~Truthy(password) THEN "Password required for protected event"
    ELSE ""

CreateEvent(c, name, location, isProtected, password) ==
    /\ sockets[c].connected
    /\ LET e == CreateEventError(c, name, location, isProtected, password)
       IN  IF e # ""
           THEN /\ ack' = Fail("host:createEvent", c, NullId, e)
                /\ UNCHANGED <<nextEventId, events>>
           ELSE /\ nextEventId <= MaxEvents
                /\ events' = Append(events,
                       NewEvent(nextEventId, isProtected, IF isProtected THEN password ELSE ""))
                /\ nextEventId' = nextEventId + 1
                /\ ack' = Ok("host:createEvent", c, NullId)
    /\ UNCHANGED <<now, nextItemId, sockets>>

(***************************************************************************)
(* What the server sends out about an event: the entry of the events:list  *)
(* result and of the eventsUpdated broadcast, the event of the             *)
(* host:createEvent acknowledgment, and the event:join acknowledgment.     *)
(* Of the fields sent, name, location and active are not kept in this      *)
(* model's event record.                                                   *)
(***************************************************************************)
\* (mutant) the listing entry is the stored event itself
listingViewWhole(ev) == ev

\* events.map(e => ({ id, name, isProtected, active, itemCount, location }))
listingView(ev) ==
    [id |-> ev.id, isProtected |-> ev.isProtected, itemCount |-> Len(ev.items)]

\* event: { id, name, isProtected, location }
createdView(ev) == [id |-> ev.id, isProtected |-> ev.isProtected]

\* { ok, event: { id, name, isProtected, active, minIncrement, currentLotId, location }, items }
joinedView(ev) ==
    [event |-> [id |-> ev.id, isProtected |-> ev.isProtected,
                minIncrement |-> ev.minIncrement, currentLotId |-> ev.currentLotId],
     items |-> ev.items]

EventsList(c) ==
    /\ sockets[c].connected
    /\ ack' = Ok("events:list", c, NullId)
    /\ UNCHANGED <<now, nextEventId, nextItemId, events, sockets>>

(***************************************************************************)
(* Identity lock: event:join and disconnect.  The join is written over an  *)
(* explicit pair (S, E) of socket table and event list, so that two joins  *)
(* can be composed.                                                        *)
(***************************************************************************)
ErrNameChangeDenied == "Name cannot be changed during an active event"
ErrNameConflict == "That name is already taken in this event"

\* name = String(name || "").trim() || socket.data.displayName
joinName(S, c, name) == IF Truthy(name) THEN name ELSE S[c].displayName

\* the caller is already bound to ev under a different name
nameChangeDenied(S, ev, c, n) ==
    /\ S[c].nameLocked /\ Truthy(S[c].displayName) /\ S[c].eventId = ev.id
    /\ n # S[c].displayName

\* (mutant) uniqueness checked only for a caller that holds a lock
nameTakenOnlyIfLocked(S, ev, c, n) == S[c].nameLocked /\ n \in ev.participants

\* the caller is not yet bound to ev and the name is held in ev
nameTaken(S, ev, c, n) ==
    /\ (~S[c].nameLocked \/ S[c].eventId # ev.id \/ ~Truthy(S[c].displayName))
    /\ n \in ev.participants

JoinError(S, E, c, eventId, name, password) ==
    IF ~Truthy(S[c].paymentProfile) THEN "Complete payment profile first"
    ELSE IF S[c].role # "bidder" THEN "Switch to Bidder to join"
    ELSE IF ~hasEventIn(E, eventId) THEN "Event not found"
    ELSE LET ev == getEventIn(E, eventId)
             n == joinName(S, c, name)
         IN  IF ev.isProtected /\ password # ev.password THEN "Wrong event password"
             ELSE IF ~Truthy(n) THEN "Please enter a name"
             ELSE IF nameChangeDenied(S, ev, c, n) THEN ErrNameChangeDenied
             ELSE IF nameTaken(S, ev, c, n) THEN ErrNameConflict
             ELSE ""

\* (mutant) the move empties the participant set of the former event
leaveFormerEmptiesEvent(S, E, c, eventId) ==
    IF TruthyId(S[c].eventId) /\ S[c].eventId # eventId
       /\ hasEventIn(E, S[c].eventId) /\ Truthy(S[c].displayName)
    THEN withEvent(E, [getEventIn(E, S[c].eventId) EXCEPT !.participants = {}])
    ELSE E

\* "Move rooms if needed": the caller's current name leaves its former event
leaveFormer(S, E, c, eventId) ==
    IF TruthyId(S[c].eventId) /\ S[c].eventId # eventId
       /\ hasEventIn(E, S[c].eventId) /\ Truthy(S[c].displayName)
    THEN withEvent(E, [getEventIn(E, S[c].eventId) EXCEPT
                          !.participants = @ \ {S[c].displayName}])
    ELSE E

JoinEvents(S, E, c, eventId, name) ==
    LET E1 == leaveFormer(S, E, c, eventId)
    IN  withEvent(E1, [getEventIn(E1, eventId) EXCEPT
                          !.participants = @ \cup {joinName(S, c, name)}])

JoinSockets(S, c, eventId, name) ==
    [S EXCEPT ![c].eventId = eventId,
              ![c].displayName = joinName(S, c, name),
              ![c].nameLocked = TRUE]

EventJoin(c, eventId, name, password) ==
    /\ sockets[c].connected
    /\ LET e == JoinError(sockets, events, c, eventId, name, password)
       IN  IF e # ""
           THEN /\ ack' = Fail("event:join", c, NullId, e)
                /\ UNCHANGED <<events, sockets>>
           ELSE /\ events' = JoinEvents(sockets, events, c, eventId, name)
                /\ sockets' = JoinSockets(sockets, c, eventId, name)
                /\ ack' = Ok("event:join", c, NullId)
    /\ UNCHANGED <<now, nextEventId, nextItemId>>

\* the name the disconnect handler deletes from the socket's event
releasedName(c) == sockets[c].displayName

Disconnect(c) ==
    /\ sockets[c].connected
    /\ events' = IF hasEvent(sockets[c].eventId) /\ Truthy(sockets[c].displayName)
                 THEN withEvent(events, [getEvent(sockets[c].eventId) EXCEPT
                                            !.participants = @ \ {releasedName(c)}])
                 ELSE events
    /\ sockets' = [sockets EXCEPT ![c] = NoSocket]
    /\ UNCHANGED <<now, nextEventId, nextItemId, ack>>

(***************************************************************************)
(* Host commands on an event and its items.                                *)
(***************************************************************************)
SetMinIncrementError(c, eventId, value) ==
    IF sockets[c].role # "host" THEN "Host only"
    ELSE IF ~hasEvent(eventId) THEN "Event not found"
    ELSE IF ~isFinite(value) \/ FlLess(value, Zero) THEN "Value must be >= 0"
    ELSE ""

SetMinIncrement(c, eventId, value) ==
    /\ sockets[c].connected
    /\ LET e == SetMinIncrementError(c, eventId, value)
       IN  IF e # ""
           THEN /\ ack' = Fail("host:setMinIncrement", c, NullId, e)
                /\ UNCHANGED events
           ELSE /\ events' = withEvent(events, [getEvent(eventId) EXCEPT !.minIncrement = value])
                /\ ack' = Ok("host:setMinIncrement", c, NullId)
    /\ UNCHANGED <<now, nextEventId, nextItemId, sockets>>

NewItem(id, open) ==
    [id |-> id, openingBid |-> open, currentBid |-> open, currentWinner |-> Null,
     bidHistory |-> <<>>, status |-> "open", endTime |-> NullTime,
     paymentStatus |-> "none", paymentDueAt |-> NullTime, paymentWinnerName |-> Null]

CreateItemError(c, eventId, title, openingBid) ==
    IF sockets[c].role # "host" THEN "Host only"
    ELSE IF ~hasEvent(eventId) THEN "Event not found"
    ELSE IF ~Truthy(title) THEN "Title is required"
    ELSE IF ~isFinite(openingBid) \/ FlLess(openingBid, Zero) THEN "Opening bid must be a number >= 0"
    ELSE ""

CreateItem(c, eventId, title, openingBid) ==
    /\ sockets[c].connected
    /\ LET e == CreateItemError(c, eventId, title, openingBid)
       IN  IF e # ""
           THEN /\ ack' = Fail("host:createItem", c, NullId, e)
                /\ UNCHANGED <<nextItemId, events>>
           ELSE /\ nextItemId <= MaxItems
                /\ events' = withEvent(events, [getEvent(eventId) EXCEPT
                                 !.items = Append(@, NewItem(nextItemId, openingBid))])
                /\ nextItemId' = nextItemId + 1
                /\ ack' = Ok("host:createItem", c, nextItemId)
    /\ UNCHANGED <<now, nextEventId, sockets>>

\* the common prologue of the item commands of the host
HostItemError(c, eventId, itemId) ==
    IF sockets[c].role # "host" THEN "Host only"
    ELSE IF ~hasEvent(eventId) THEN "Not found"
    ELSE IF ~hasItem(getEvent(eventId), itemId) THEN "Not found"
    ELSE ""

\* const dur = Number(durationSeconds || 60)
duration(durationSeconds) ==
    IF durationSeconds = 0 THEN DefaultDurationSeconds ELSE durationSeconds

StartTimerError(c, eventId, itemId, durationSeconds) ==
    IF HostItemError(c, eventId, itemId) # "" THEN HostItemError(c, eventId, itemId)
    ELSE IF getItem(getEvent(eventId), itemId).status # "open" THEN "Item not open"
    ELSE IF duration(durationSeconds) <= 0 THEN "Bad duration"
    ELSE ""

StartTimer(c, eventId, itemId, durationSeconds) ==
    /\ sockets[c].connected
    /\ LET e == StartTimerError(c, eventId, itemId, durationSeconds)
       IN  IF e # ""
           THEN /\ ack' = Fail("host:startTimer", c, itemId, e)
                /\ UNCHANGED events
           ELSE /\ LET ev == getEvent(eventId)
                       item == getItem(ev, itemId)
                   IN  events' = withEvent(events, withItem(ev,
                           [item EXCEPT !.endTime = now + duration(durationSeconds) * MsPerSecond]))
                /\ ack' = Ok("host:startTimer", c, itemId)
    /\ UNCHANGED <<now, nextEventId, nextItemId, sockets>>

\* (mutant) the timer of an item that is not open cannot be stopped
StopTimerOpenOnly(c, eventId, itemId) ==
    /\ sockets[c].connected
    /\ LET e == StartTimerError(c, eventId, itemId, DefaultDurationSeconds)
       IN  IF e # ""
           THEN /\ ack' = Fail("host:stopTimer", c, itemId, e)
                /\ UNCHANGED events
           ELSE /\ LET ev == getEvent(eventId)
                       item == getItem(ev, itemId)
                   IN  events' = withEvent(events, withItem(ev,
                           [item EXCEPT !.endTime = NullTime]))
                /\ ack' = Ok("host:stopTimer", c, itemId)
    /\ UNCHANGED <<now, nextEventId, nextItemId, sockets>>

StopTimer(c, eventId, itemId) ==
    /\ sockets[c].connected
    /\ LET e == HostItemError(c, eventId, itemId)
       IN  IF e # ""
           THEN /\ ack' = Fail("host:stopTimer", c, itemId, e)
                /\ UNCHANGED events
           ELSE /\ LET ev == getEvent(eventId)
                       item == getItem(ev, itemId)
                   IN  events' = withEvent(events, withItem(ev,
                           [item EXCEPT !.endTime = NullTime]))
                /\ ack' = Ok("host:stopTimer", c, itemId)
    /\ UNCHANGED <<now, nextEventId, nextItemId, sockets>>

\* (mutant) the payment window closes at the moment of sale
soldItemDueNow(item) ==
    LET sold == [item EXCEPT !.status = "sold", !.endTime = NullTime]
    IN  IF Truthy(item.currentWinner)
        THEN [sold EXCEPT !.paymentStatus = "pending",
                          !.paymentWinnerName = item.currentWinner,
                          !.paymentDueAt = now]
        ELSE sold

\* (mutant) the sale leaves the bidding deadline in place
soldItemKeepsTimer(item) ==
    LET sold == [item EXCEPT !.status = "sold"]
    IN  IF Truthy(item.currentWinner)
        THEN [sold EXCEPT !.paymentStatus = "pending",
                          !.paymentWinnerName = item.currentWinner,
                          !.paymentDueAt = now + PaymentWindowMs]
        ELSE sold

\* the item as host:markSold leaves it
soldItem(item) ==
    LET sold == [item EXCEPT !.status = "sold", !.endTime = NullTime]
    IN  IF Truthy(item.currentWinner)
        THEN [sold EXCEPT !.paymentStatus = "pending",
                          !.paymentWinnerName = item.currentWinner,
                          !.paymentDueAt = now + PaymentWindowMs]
        ELSE sold

MarkSold(c, eventId, itemId) ==
    /\ sockets[c].connected
    /\ LET e == HostItemError(c, eventId, itemId)
       IN  IF e # ""
           THEN /\ ack' = Fail("host:markSold", c, itemId, e)
                /\ UNCHANGED events
           ELSE /\ LET ev == getEvent(eventId)
                   IN  events' = withEvent(events, withItem(ev, soldItem(getItem(ev, itemId))))
                /\ ack' = Ok("host:markSold", c, itemId)
    /\ UNCHANGED <<now, nextEventId, nextItemId, sockets>>

\* (mutant) the reopen leaves the name of the payment winner in place
reopenedItemKeepsWinnerName(item) ==
    [item EXCEPT !.status = "open",
                 !.endTime = IF TruthyTime(item.endTime) /\ now >= item.endTime
                             THEN NullTime ELSE item.endTime,
                 !.paymentStatus = "none",
                 !.paymentDueAt = NullTime]

\* (mutant) the reopen also restarts the bidding at the opening bid
reopenedItemResetsBid(item) ==
    [item EXCEPT !.status = "open",
                 !.endTime = IF TruthyTime(item.endTime) /\ now >= item.endTime
                             THEN NullTime ELSE item.endTime,
                 !.paymentStatus = "none",
                 !.paymentDueAt = NullTime,
                 !.paymentWinnerName = Null,
                 !.currentBid = item.openingBid,
                 !.currentWinner = Null]

\* (mutant) the reopen leaves the payment fields as they are
reopenedItemKeepsPayment(item) ==
    [item EXCEPT !.status = "open",
                 !.endTime = IF TruthyTime(item.endTime) /\ now >= item.endTime
                             THEN NullTime ELSE item.endTime]

\* (mutant) the reopen clears the payment deadline and winner but not the status
reopenedItemKeepsPaymentStatus(item) ==
    [item EXCEPT !.status = "open",
                 !.endTime = IF TruthyTime(item.endTime) /\ now >= item.endTime
                             THEN NullTime ELSE item.endTime,
                 !.paymentDueAt = NullTime,
                 !.paymentWinnerName = Null]

\* the item as host:reopen leaves it
reopenedItem(item) ==
    [item EXCEPT !.status = "open",
                 !.endTime = IF TruthyTime(item.endTime) /\ now >= item.endTime
                             THEN NullTime ELSE item.endTime,
                 !.paymentStatus = "none",
                 !.paymentDueAt = NullTime,
                 !.paymentWinnerName = Null]

Reopen(c, eventId, itemId) ==
    /\ sockets[c].connected
    /\ LET e == HostItemError(c, eventId, itemId)
       IN  IF e # ""
           THEN /\ ack' = Fail("host:reopen", c, itemId, e)
                /\ UNCHANGED events
           ELSE /\ LET ev == getEvent(eventId)
                   IN  events' = withEvent(events, withItem(ev, reopenedItem(getItem(ev, itemId))))
                /\ ack' = Ok("host:reopen", c, itemId)
    /\ UNCHANGED <<now, nextEventId, nextItemId, sockets>>

\* (mutant) the item is not looked up in the event
SetCurrentLotErrorAnyItem(c, eventId, itemId) ==
    IF sockets[c].role # "host" THEN "Host only"
    ELSE IF ~hasEvent(eventId) THEN "Event not found"
    ELSE ""

SetCurrentLotError(c, eventId, itemId) ==
    IF sockets[c].role # "host" THEN "Host only"
    ELSE IF ~hasEvent(eventId) THEN "Event not found"
    ELSE IF TruthyId(itemId) /\ ~hasItem(getEvent(eventId), itemId) THEN "Item not found"
    ELSE ""

SetCurrentLot(c, eventId, itemId) ==
    /\ sockets[c].connected
    /\ LET e == SetCurrentLotError(c, eventId, itemId)
       IN  IF e # ""
           THEN /\ ack' = Fail("host:setCurrentLot", c, itemId, e)
                /\ UNCHANGED events
           ELSE /\ events' = withEvent(events, [getEvent(eventId) EXCEPT !.currentLotId = itemId])
                /\ ack' = Ok("host:setCurrentLot", c, itemId)
    /\ UNCHANGED <<now, nextEventId, nextItemId, sockets>>

(***************************************************************************)
(* Bid arbiter: placeBid.                                                  *)
(***************************************************************************)
ErrWindowClosed == "Time is up - bidding closed."
ErrBidTooLow == "Bid must be greater than current bid"
ErrBidTooLowIncrement == "Bid must be at least the increment higher"
ErrBidNotOpen == "Bidding is closed (status)."

\* socket.data.displayName || String(name || "Anonymous").slice(0, 40)
effectiveName(c, name) ==
    IF Truthy(sockets[c].displayName) THEN sockets[c].displayName
    ELSE IF Truthy(name) THEN name ELSE "Anonymous"

\* (mutant) the lazy close also forgets the leading bidder
lazyClosedItemDropsLeader(item) ==
    [item EXCEPT !.status = "closed", !.endTime = NullTime, !.currentWinner = Null]

\* (mutant) the deadline instant itself still counts as open
deadlinePassedStrict(item) == TruthyTime(item.endTime) /\ now > item.endTime

\* item.endTime && Date.now() >= item.endTime
deadlinePassed(item) == TruthyTime(item.endTime) /\ now >= item.endTime

minAcceptable(item) == FlMax(item.openingBid, item.currentBid)

required(ev, item) ==
    IF ev.minIncrement = Zero
    THEN FlAdd(minAcceptable(item), EPSILON)
    ELSE FlAdd(minAcceptable(item), ev.minIncrement)

\* (mutant) a bid equal to the required amount is refused
bidTooLowOrEqual(ev, item, amount) == FlLeq(amount, required(ev, item))

bidTooLow(ev, item, amount) == FlLess(amount, required(ev, item))

\* the MVP server's test: amount <= minAcceptable
bidTooLowMVP(item, amount) == FlLeq(amount, minAcceptable(item))

\* the checks of placeBid that precede the deadline check
PlaceBidGateError(c, eventId, itemId, name) ==
    IF sockets[c].role # "bidder" THEN "Only bidders can place bids"
    ELSE IF ~hasEvent(eventId) THEN "Not found"
    ELSE IF ~hasItem(getEvent(eventId), itemId) THEN "Not found"
    ELSE IF sockets[c].eventId # eventId THEN "Join the event first"
    ELSE IF ~sockets[c].nameLocked \/ effectiveName(c, name) # sockets[c].displayName
         THEN "Your name is locked for this event"
    ELSE IF getItem(getEvent(eventId), itemId).status # "open" THEN ErrBidNotOpen
    ELSE ""

\* the checks of placeBid that follow the deadline check
PlaceBidAmountError(ev, item, amount) ==
    IF ~isFinite(amount) \/ FlLeq(amount, Zero) THEN "Bid amount must be positive"
    ELSE IF bidTooLow(ev, item, amount)
         THEN IF FlLess(Zero, ev.minIncrement) THEN ErrBidTooLowIncrement ELSE ErrBidTooLow
    ELSE ""

\* the item as the lazy close of placeBid leaves it
lazyClosedItem(item) == [item EXCEPT !.status = "closed", !.endTime = NullTime]

\* (mutant) an accepted bid is recorded in the ledger but leaves the leader
acceptedItemKeepsLeader(item, name, amount) ==
    [item EXCEPT !.currentBid = amount,
                 !.bidHistory = Append(@, [name |-> name, amount |-> amount, time |-> now])]

\* the item as an accepted bid leaves it
acceptedItem(item, name, amount) ==
    LET bid == [item EXCEPT !.currentBid = amount,
                            !.currentWinner = name,
                            !.bidHistory = Append(@, [name |-> name, amount |-> amount, time |-> now])]
    IN  IF item.paymentStatus # "none"
        THEN [bid EXCEPT !.paymentStatus = "none", !.paymentDueAt = NullTime,
                         !.paymentWinnerName = Null]
        ELSE bid

PlaceBid(c, eventId, itemId, amount, name) ==
    /\ sockets[c].connected
    /\ LET g == PlaceBidGateError(c, eventId, itemId, name)
       IN  IF g # ""
           THEN /\ ack' = Fail("placeBid", c, itemId, g)
                /\ UNCHANGED events
           ELSE LET ev == getEvent(eventId)
                    item == getItem(ev, itemId)
                    a == PlaceBidAmountError(ev, item, amount)
                IN  IF deadlinePassed(item)
                    THEN /\ events' = withEvent(events, withItem(ev, lazyClosedItem(item)))
                         /\ ack' = Fail("placeBid", c, itemId, ErrWindowClosed)
                    ELSE IF a # ""
                    THEN /\ ack' = Fail("placeBid", c, itemId, a)
                         /\ UNCHANGED events
                    ELSE /\ Len(item.bidHistory) < MaxBids
                         /\ events' = withEvent(events, withItem(ev,
                                acceptedItem(item, effectiveName(c, name), amount)))
                         /\ ack' = Ok("placeBid", c, itemId)
    /\ UNCHANGED <<now, nextEventId, nextItemId, sockets>>

(***************************************************************************)
(* Payment window: payment:confirm.                                        *)
(***************************************************************************)
ErrPaymentExpired == "Payment window expired"
ErrNotWinner == "Only the winning bidder can confirm"

\* the checks of payment:confirm that precede the deadline check
ConfirmGateError(c, eventId, itemId) ==
    IF ~hasEvent(eventId) THEN "Not found"
    ELSE IF ~hasItem(getEvent(eventId), itemId) THEN "Not found"
    ELSE LET item == getItem(getEvent(eventId), itemId)
         IN  IF item.status # "sold" THEN "Item not sold"
             ELSE IF item.paymentStatus # "pending" THEN "No pending payment"
             ELSE IF ~Truthy(sockets[c].paymentProfile) THEN "Setup payment profile first"
             ELSE IF sockets[c].displayName # item.paymentWinnerName THEN ErrNotWinner
             ELSE ""

\* item.paymentDueAt && now > item.paymentDueAt
paymentOverdue(item) == TruthyTime(item.paymentDueAt) /\ now > item.paymentDueAt

confirmedItem(item) == [item EXCEPT !.paymentStatus = "confirmed", !.paymentDueAt = NullTime]

PaymentConfirm(c, eventId, itemId) ==
    /\ sockets[c].connected
    /\ LET g == ConfirmGateError(c, eventId, itemId)
       IN  IF g # ""
           THEN /\ ack' = Fail("payment:confirm", c, itemId, g)
                /\ UNCHANGED events
           ELSE LET ev == getEvent(eventId)
                    item == getItem(ev, itemId)
                IN  IF paymentOverdue(item)
                    THEN /\ events' = withEvent(events, withItem(ev,
                                [item EXCEPT !.paymentStatus = "expired"]))
                         /\ ack' = Fail("payment:confirm", c, itemId, ErrPaymentExpired)
                    ELSE /\ events' = withEvent(events, withItem(ev, confirmedItem(item)))
                         /\ ack' = Ok("payment:confirm", c, itemId)
    /\ UNCHANGED <<now, nextEventId, nextItemId, sockets>>

(***************************************************************************)
(* Expiry sweep (setInterval, every second) and the clock.                 *)
(***************************************************************************)
\* (mutant) the sweep closes an item only after its deadline instant
sweepCloseStrict(item) ==
    IF item.status = "open" /\ TruthyTime(item.endTime) /\ now > item.endTime
    THEN [item EXCEPT !.status = "closed", !.endTime = NullTime]
    ELSE item

sweepClose(item) ==
    IF item.status = "open" /\ TruthyTime(item.endTime) /\ now >= item.endTime
    THEN [item EXCEPT !.status = "closed", !.endTime = NullTime]
    ELSE item

\* (mutant) the sweep expires a payment at its deadline instant
sweepExpireAtDeadline(item) ==
    IF item.status = "sold" /\ item.paymentStatus = "pending"
       /\ TruthyTime(item.paymentDueAt) /\ now >= item.paymentDueAt
    THEN [item EXCEPT !.paymentStatus = "expired"]
    ELSE item

sweepExpire(item) ==
    IF item.status = "sold" /\ item.paymentStatus = "pending"
       /\ TruthyTime(item.paymentDueAt) /\ now > item.paymentDueAt
    THEN [item EXCEPT !.paymentStatus = "expired"]
    ELSE item

\* (mutant) the sweep closes items but expires no payment
sweptItemClosesOnly(item) == sweepClose(item)

sweptItem(item) == sweepExpire(sweepClose(item))

\* one of the two branches of the sweep's loop body is taken for the item
sweepTouches(item) ==
    \/ item.status = "open" /\ TruthyTime(item.endTime) /\ now >= item.endTime
    \/ /\ sweepClose(item).status = "sold" /\ item.paymentStatus = "pending"
       /\ TruthyTime(item.paymentDueAt) /\ now > item.paymentDueAt

\* changedAny after the loop has run over items[y], items[y+1], ...
RECURSIVE changedAnyFrom(_, _)
changedAnyFrom(items, y) ==
    IF y > Len(items) THEN FALSE
    ELSE sweepTouches(items[y]) \/ changedAnyFrom(items, y + 1)

\* the items broadcast of one event after the sweep's loop over its items
itemsBroadcast(ev) ==
    [event |-> "items", room |-> ev.id,
     items |-> [y \in DOMAIN ev.items |-> sweptItem(ev.items[y])]]

\* (mutant) one broadcast for each item the sweep changed
sweepEmitsPerItem(ev) ==
    [k \in 1..Cardinality({y \in DOMAIN ev.items : sweepTouches(ev.items[y])}) |->
        itemsBroadcast(ev)]

\* if (changedAny) io.to("event_" + ev.id).emit("items", ev.items)
sweepEmits(ev) ==
    IF changedAnyFrom(ev.items, 1) THEN <<itemsBroadcast(ev)>> ELSE <<>>

Sweep ==
    /\ events' = [x \in DOMAIN events |->
                    [events[x] EXCEPT !.items = [y \in DOMAIN @ |-> sweptItem(@[y])]]]
    /\ UNCHANGED <<now, nextEventId, nextItemId, sockets, ack>>

Tick ==
    /\ now + ClockStep <= MaxTime
    /\ now' = now + ClockStep
    /\ UNCHANGED <<nextEventId, nextItemId, events, sockets, ack>>

(***************************************************************************)
(* Identity specification: connections, roles, profiles, events, joins.    *)
(* c1 is the host's connection, c2 and c3 are bidders' connections.        *)
(***************************************************************************)
HostConns == {"c1"}
BidderConns == Conns \ HostConns
TokenInputs == {ADMIN_TOKEN, "bad"}
NameInputs == Names \cup {""}

NextIdentity ==
    \/ \E c \in Conns : Connect(c)
    \/ \E c \in BidderConns : Disconnect(c)
    \/ \E c \in HostConns, t \in TokenInputs : Auth(c, "host", t)
    \/ \E c \in BidderConns : Auth(c, "bidder", "")
    \/ \E c \in BidderConns, n \in NameInputs : ProfileSetup(c, n, "a@b")
    \/ \E c \in HostConns : CreateEvent(c, "Gala", "Hall", FALSE, "")
    \/ \E c \in BidderConns, e \in 1..MaxEvents, n \in NameInputs :
          EventJoin(c, e, n, "")

SpecIdentity == Init /\ [][NextIdentity]_vars

(***************************************************************************)
(* Auction specification: the host (c1) runs the items of its events, one  *)
(* bidder (c2) bids and confirms payment, the sweep runs and the clock     *)
(* advances.  The host's client addresses a command to an existing item    *)
(* once it holds the host role; the bidder's client bids once it has       *)
(* joined under the name Alice.  A third connection (c3) only sets up a    *)
(* payment profile, under either name, and tries to confirm payments.      *)
(***************************************************************************)
AmountInputs == {D(1, 0), D(2, 0), D(3, 0)}
OpeningInputs == {D(1, 0), D(2, 0)}
IncrementInputs == {Zero, D(1, 0)}
DurationInputs == {0, DefaultDurationSeconds}
AuctionBidders == {"c2"}
Onlookers == {"c3"}

isHost(c) == sockets[c].role = "host"
isItemOf(e, i) == hasEvent(e) /\ hasItem(getEvent(e), i)

NextAuction ==
    \/ \E c \in Conns : Connect(c)
    \/ \E c \in HostConns, t \in TokenInputs : Auth(c, "host", t)
    \/ \E c \in AuctionBidders : Auth(c, "bidder", "")
    \/ \E c \in AuctionBidders : ProfileSetup(c, "Alice", "a@b")
    \/ \E c \in Onlookers, n \in Names : ProfileSetup(c, n, "a@b")
    \/ \E c \in HostConns : nextEventId <= AuctionEvents /\ CreateEvent(c, "Gala", "Hall", FALSE, "")
    \/ \E c \in AuctionBidders, e \in 1..AuctionEvents : EventJoin(c, e, "", "")
    \/ \E c \in HostConns, e \in 1..AuctionEvents, v \in IncrementInputs :
          isHost(c) /\ hasEvent(e) /\ SetMinIncrement(c, e, v)
    \/ \E c \in HostConns, e \in 1..AuctionEvents, o \in OpeningInputs :
          isHost(c) /\ hasEvent(e) /\ CreateItem(c, e, "Lot", o)
    \/ \E c \in HostConns, e \in 1..AuctionEvents, i \in 1..MaxItems :
          isHost(c) /\ isItemOf(e, i) /\ StopTimer(c, e, i)
    \/ \E c \in HostConns, e \in 1..AuctionEvents, i \in 1..MaxItems, d \in DurationInputs :
          isHost(c) /\ isItemOf(e, i) /\ StartTimer(c, e, i, d)
    \/ \E c \in HostConns, e \in 1..AuctionEvents, i \in 1..MaxItems :
          isHost(c) /\ isItemOf(e, i) /\ MarkSold(c, e, i)
    \/ \E c \in HostConns, e \in 1..AuctionEvents, i \in 1..MaxItems :
          isHost(c) /\ isItemOf(e, i) /\ Reopen(c, e, i)
    \/ \E c \in AuctionBidders, e \in 1..AuctionEvents, i \in 1..MaxItems, a \in AmountInputs :
          isItemOf(e, i) /\ PlaceBid(c, e, i, a, "")
    \/ \E c \in AuctionBidders \cup Onlookers, e \in 1..AuctionEvents, i \in 1..MaxItems :
          isItemOf(e, i) /\ PaymentConfirm(c, e, i)
    \/ Sweep
    \/ Tick

SpecAuction == Init /\ [][NextAuction]_vars

\* The sweep runs every second for as long as the server runs (setInterval):
\* a sweep tick that would change something is not postponed forever.
SpecAuctionLive == SpecAuction /\ WF_vars(Sweep)

\* The same with an advancing clock: Date.now() does not stand still.
SpecAuctionClock == SpecAuction /\ WF_vars(Sweep) /\ WF_vars(Tick)

(***************************************************************************)
(* Sweep specification: an event with SweepItems items, as the host (c1)   *)
(* has created them, and a bidder (c2) who has joined it as Alice; the     *)
(* host starts timers and sells, the bidder bids and confirms, the sweep   *)
(* runs and the clock advances.                                            *)
(***************************************************************************)
SweepItems == 2

InitSweep ==
    /\ now = StartTime
    /\ nextEventId = 2
    /\ nextItemId = SweepItems + 1
    /\ events = <<[NewEvent(1, FALSE, "") EXCEPT
                      !.items = [y \in 1..SweepItems |-> NewItem(y, D(1, 0))],
                      !.participants = {"Alice"}]>>
    /\ sockets = [c \in Conns |->
                    IF c \in HostConns THEN [NewSocket EXCEPT !.role = "host"]
                    ELSE IF c \in AuctionBidders
                    THEN [NewSocket EXCEPT !.role = "bidder", !.eventId = 1,
                                           !.nameLocked = TRUE, !.displayName = "Alice",
                                           !.paymentProfile = "Alice"]
                    ELSE NoSocket]
    /\ ack = NoAck

NextSweep ==
    \/ \E c \in HostConns, i \in 1..SweepItems : StartTimer(c, 1, i, DefaultDurationSeconds)
    \/ \E c \in HostConns, i \in 1..SweepItems : MarkSold(c, 1, i)
    \/ \E c \in AuctionBidders, i \in 1..SweepItems : PlaceBid(c, 1, i, D(2, 0), "")
    \/ \E c \in AuctionBidders, i \in 1..SweepItems : PaymentConfirm(c, 1, i)
    \/ Sweep
    \/ Tick

SpecSweep == InitSweep /\ [][NextSweep]_vars

(***************************************************************************)
(* Two-event specification: the host (c1) has created two events with one  *)
(* item each (item k belongs to event k); the bidder c2 has joined event 1  *)
(* as Alice and the bidder c3 has joined event 2 as Bob.  The bidders set   *)
(* up their profiles again, join either event and bid; the host addresses   *)
(* commands to either event with either item id; the sweep runs and the    *)
(* clock advances.                                                         *)
(***************************************************************************)
TwoEvents == 2
TwoEventsTicks == 1

joinedAs(e, n) ==
    [NewSocket EXCEPT !.role = "bidder", !.eventId = e, !.nameLocked = TRUE,
                      !.displayName = n, !.paymentProfile = n]

InitTwoEvents ==
    /\ now = StartTime
    /\ nextEventId = TwoEvents + 1
    /\ nextItemId = TwoEvents + 1
    /\ events = [e \in 1..TwoEvents |->
                    [NewEvent(e, FALSE, "") EXCEPT
                        !.items = <<NewItem(e, D(1, 0))>>,
                        !.participants = {IF e = 1 THEN "Alice" ELSE "Bob"}]]
    /\ sockets = [c \in Conns |->
                    IF c \in HostConns THEN [NewSocket EXCEPT !.role = "host"]
                    ELSE IF c = "c2" THEN joinedAs(1, "Alice")
                    ELSE joinedAs(TwoEvents, "Bob")]
    /\ ack = NoAck

noBidYet == \A x \in DOMAIN events : \A y \in DOMAIN events[x].items :
               events[x].items[y].bidHistory = <<>>

NextTwoEvents ==
    \/ \E n \in Names : ProfileSetup("c3", n, "a@b")
    \/ \E c \in BidderConns, e \in 1..TwoEvents : EventJoin(c, e, "", "")
    \/ \E c \in BidderConns, e \in 1..TwoEvents, i \in 1..TwoEvents :
          noBidYet /\ PlaceBid(c, e, i, D(2, 0), "")
    \/ \E c \in HostConns, e \in 1..TwoEvents : SetMinIncrement(c, e, D(1, 0))
    \/ \E c \in HostConns, e \in 1..TwoEvents, i \in 1..TwoEvents :
          now = StartTime /\ StartTimer(c, e, i, DefaultDurationSeconds)
    \/ Sweep
    \/ now < StartTime + TwoEventsTicks * ClockStep /\ Tick

SpecTwoEvents == InitTwoEvents /\ [][NextTwoEvents]_vars

(***************************************************************************)
(* The single-event server (src/server.js).  Its one auction (the globals  *)
(* items, MIN_INCREMENT and currentLotId) is held as the one event         *)
(* SingleEvent; its items have no payment fields, which stay at their      *)
(* initial values here.  A connection starts as a bidder, and an admin     *)
(* action is let through either by the connection's role or by an admin    *)
(* token in the payload.                                                   *)
(***************************************************************************)
SingleEvent == 1

InitSingle ==
    /\ now = StartTime
    /\ nextEventId = SingleEvent + 1
    /\ nextItemId = 1
    /\ events = <<NewEvent(SingleEvent, FALSE, "")>>
    /\ sockets = [c \in Conns |-> NoSocket]
    /\ ack = NoAck

ConnectSingle(c) ==
    /\ ~sockets[c].connected
    /\ sockets' = [sockets EXCEPT ![c] = [NewSocket EXCEPT !.role = "bidder"]]
    /\ UNCHANGED <<now, nextEventId, nextItemId, events, ack>>

isAuthedAdminToken(token) == Truthy(ADMIN_TOKEN) /\ Truthy(token) /\ token = ADMIN_TOKEN

AuthSingle(c, role, password) ==
    /\ sockets[c].connected
    /\ IF role = "admin" /\ ~isAuthedAdminToken(password)
       THEN /\ sockets' = [sockets EXCEPT ![c].role = "bidder"]
            /\ ack' = Fail("auth", c, NullId, "Invalid admin password")
       ELSE /\ sockets' = [sockets EXCEPT ![c].role =
                              IF role = "admin" THEN "admin" ELSE "bidder"]
            /\ ack' = Ok("auth", c, NullId)
    /\ UNCHANGED <<now, nextEventId, nextItemId, events>>

requireAdmin(c, tokenFromPayload) ==
    sockets[c].role = "admin" \/ isAuthedAdminToken(tokenFromPayload)

AdminCreateItem(c, title, openingBid, adminToken) ==
    /\ sockets[c].connected
    /\ IF ~requireAdmin(c, adminToken)
       THEN /\ ack' = Fail("createItem", c, NullId, "Admin only")
            /\ UNCHANGED <<nextItemId, events>>
       ELSE IF ~Truthy(title)
       THEN /\ ack' = Fail("createItem", c, NullId, "Title is required")
            /\ UNCHANGED <<nextItemId, events>>
       ELSE IF ~isFinite(openingBid) \/ FlLess(openingBid, Zero)
       THEN /\ ack' = Fail("createItem", c, NullId, "Opening bid must be a number >= 0")
            /\ UNCHANGED <<nextItemId, events>>
       ELSE /\ nextItemId <= MaxItems
            /\ events' = withEvent(events, [getEvent(SingleEvent) EXCEPT
                             !.items = Append(@, NewItem(nextItemId, openingBid))])
            /\ nextItemId' = nextItemId + 1
            /\ ack' = Ok("createItem", c, nextItemId)
    /\ UNCHANGED <<now, nextEventId, sockets>>

AdminSetMinIncrement(c, value, adminToken) ==
    /\ sockets[c].connected
    /\ IF ~requireAdmin(c, adminToken)
       THEN /\ ack' = Fail("admin:setMinIncrement", c, NullId, "Admin only")
            /\ UNCHANGED events
       ELSE IF ~isFinite(value) \/ FlLess(value, Zero)
       THEN /\ ack' = Fail("admin:setMinIncrement", c, NullId, "Value must be >= 0")
            /\ UNCHANGED events
       ELSE /\ events' = withEvent(events, [getEvent(SingleEvent) EXCEPT !.minIncrement = value])
            /\ ack' = Ok("admin:setMinIncrement", c, NullId)
    /\ UNCHANGED <<now, nextEventId, nextItemId, sockets>>

\* the checks of an admin action on an item, up to "Item not found"
AdminItemError(c, itemId, adminToken) ==
    IF ~requireAdmin(c, adminToken) THEN "Admin only"
    ELSE IF ~hasItem(getEvent(SingleEvent), itemId) THEN "Item not found"
    ELSE ""

\* an admin action on an item: refused with error e, or the item becomes it2
AdminItemUpdate(op, c, itemId, e, it2) ==
    /\ sockets[c].connected
    /\ IF e # ""
       THEN /\ ack' = Fail(op, c, itemId, e)
            /\ UNCHANGED events
       ELSE /\ events' = withEvent(events, withItem(getEvent(SingleEvent), it2))
            /\ ack' = Ok(op, c, itemId)
    /\ UNCHANGED <<now, nextEventId, nextItemId, sockets>>

AdminStartTimer(c, itemId, durationSeconds, adminToken) ==
    LET g == AdminItemError(c, itemId, adminToken)
        item == getItem(getEvent(SingleEvent), itemId)
        e == IF g # "" THEN g
             ELSE IF item.status # "open" THEN "Item not open"
             ELSE IF duration(durationSeconds) <= 0 THEN "Bad duration"
             ELSE ""
    IN  AdminItemUpdate("admin:startTimer", c, itemId, e,
            [item EXCEPT !.endTime = now + duration(durationSeconds) * MsPerSecond])

AdminStopTimer(c, itemId, adminToken) ==
    LET item == getItem(getEvent(SingleEvent), itemId)
    IN  AdminItemUpdate("admin:stopTimer", c, itemId, AdminItemError(c, itemId, adminToken),
            [item EXCEPT !.endTime = NullTime])

AdminMarkSold(c, itemId, adminToken) ==
    LET item == getItem(getEvent(SingleEvent), itemId)
    IN  AdminItemUpdate("admin:markSold", c, itemId, AdminItemError(c, itemId, adminToken),
            [item EXCEPT !.status = "sold", !.endTime = NullTime])

AdminReopen(c, itemId, adminToken) ==
    LET item == getItem(getEvent(SingleEvent), itemId)
    IN  AdminItemUpdate("admin:reopen", c, itemId, AdminItemError(c, itemId, adminToken),
            [item EXCEPT !.status = "open",
                         !.endTime = IF TruthyTime(item.endTime) /\ now >= item.endTime
                                     THEN NullTime ELSE item.endTime])

AdminSetCurrentLot(c, itemId, adminToken) ==
    /\ sockets[c].connected
    /\ IF ~requireAdmin(c, adminToken)
       THEN /\ ack' = Fail("admin:setCurrentLot", c, itemId, "Admin only")
            /\ UNCHANGED events
       ELSE IF TruthyId(itemId) /\ ~hasItem(getEvent(SingleEvent), itemId)
       THEN /\ ack' = Fail("admin:setCurrentLot", c, itemId, "Item not found")
            /\ UNCHANGED events
       ELSE /\ events' = withEvent(events, [getEvent(SingleEvent) EXCEPT !.currentLotId = itemId])
            /\ ack' = Ok("admin:setCurrentLot", c, itemId)
    /\ UNCHANGED <<now, nextEventId, nextItemId, sockets>>

(***************************************************************************)
(* Single-event specification: connections authenticate as admin or        *)
(* bidder and send the admin actions, with or without an admin token in    *)
(* the payload.                                                            *)
(***************************************************************************)
SingleConns == {"c1", "c2"}
PayloadTokens == {"", ADMIN_TOKEN}

\* an admin action sent by c with adminToken t in its payload
AdminAction(c, t) ==
    \/ \E o \in OpeningInputs : AdminCreateItem(c, "Lot", o, t)
    \/ \E v \in IncrementInputs : AdminSetMinIncrement(c, v, t)
    \/ \E i \in 1..MaxItems, d \in DurationInputs : AdminStartTimer(c, i, d, t)
    \/ \E i \in 1..MaxItems : AdminStopTimer(c, i, t)
    \/ \E i \in 1..MaxItems : AdminMarkSold(c, i, t)
    \/ \E i \in 1..MaxItems : AdminReopen(c, i, t)
    \/ \E i \in 0..MaxItems : AdminSetCurrentLot(c, i, t)

NextSingle ==
    \/ \E c \in SingleConns : ConnectSingle(c)
    \/ \E c \in SingleConns, r \in {"admin", "bidder"}, t \in TokenInputs : AuthSingle(c, r, t)
    \/ \E c \in SingleConns, t \in PayloadTokens : AdminAction(c, t)
    \/ Tick

SpecSingleEvent == InitSingle /\ [][NextSingle]_vars

(***************************************************************************)
(* Registry specification: the host (c1) creates open and protected        *)
(* events, puts an item into one of them and selects current lots; a       *)
(* bidder (c2) lists the events and joins them, with or without password.  *)
(***************************************************************************)
PasswordInputs == {"", "pw"}
RegistryConns == {"c1", "c2"}

NextRegistry ==
    \/ \E c \in RegistryConns : Connect(c)
    \/ \E c \in HostConns : Auth(c, "host", ADMIN_TOKEN)
    \/ \E c \in AuctionBidders : Auth(c, "bidder", "")
    \/ \E c \in AuctionBidders : ProfileSetup(c, "Alice", "a@b")
    \/ \E c \in RegistryConns, p \in BOOLEAN, w \in PasswordInputs :
          CreateEvent(c, "Gala", "Hall", p, w)
    \/ \E c \in RegistryConns : EventsList(c)
    \/ \E c \in AuctionBidders, e \in 1..MaxEvents, w \in PasswordInputs :
          EventJoin(c, e, "", w)
    \/ \E c \in HostConns, e \in 1..MaxEvents : CreateItem(c, e, "Lot", D(1, 0))
    \/ \E c \in RegistryConns, e \in 1..MaxEvents, i \in 0..(MaxItems + 1) :
          SetCurrentLot(c, e, i)

SpecRegistry == Init /\ [][NextRegistry]_vars

(***************************************************************************)
(* Properties.                                                             *)
(***************************************************************************)
bound(S, c, eventId) == S[c].connected /\ S[c].eventId = eventId /\ S[c].nameLocked

\* the steps of this transition that are a placeBid by c on item it of ev
\* which got past the role, membership, name and status checks
BidReachesDeadlineCheck(c, ev, it, a) ==
    /\ PlaceBidGateError(c, ev.id, it.id, "") = ""
    /\ PlaceBid(c, ev.id, it.id, a, "")

\* C1: every accepted bid strictly raises currentBid and meets the increment
\* rule against the currentBid it replaced: more than it when the event's
\* minIncrement is 0, at least it plus minIncrement otherwise.
C1_AcceptedBidRaisesPrice ==
    [][\A x \in DOMAIN events : \A y \in DOMAIN events[x].items :
          LET ev == events[x]
              it == events[x].items[y]
              it2 == events'[x].items[y]
          IN  Len(it2.bidHistory) = Len(it.bidHistory) + 1
              => /\ FlLess(it.currentBid, it2.currentBid)
                 /\ ev.minIncrement # Zero
                    => FlLeq(FlAdd(it.currentBid, ev.minIncrement), it2.currentBid)]_vars

\* C2: with minIncrement 0, a bid that reaches the amount check is accepted
\* exactly when it is strictly greater than max(openingBid, currentBid); a
\* bid equal to that maximum is rejected, and an accepted bid makes the
\* caller the current winner.
C2_StrictlyGreaterAtZeroIncrement ==
    [][\A x \in DOMAIN events : \A y \in DOMAIN events[x].items :
       \A c \in Conns, a \in AmountInputs :
          LET ev == events[x]
              it == events[x].items[y]
              it2 == events'[x].items[y]
          IN  (/\ ev.minIncrement = Zero
               /\ ~(TruthyTime(it.endTime) /\ now >= it.endTime)
               /\ BidReachesDeadlineCheck(c, ev, it, a))
              => /\ ack'.ok <=> ~bidTooLowMVP(it, a)
                 /\ ack'.ok => it2.currentWinner = sockets[c].displayName
                 /\ ~ack'.ok => ack'.error = ErrBidTooLow]_vars

\* C3: a display name is the name of at most one connection bound to an event.
C3_NameHeldOnce ==
    \A c1 \in Conns, c2 \in Conns, x \in DOMAIN events :
        (c1 # c2 /\ bound(sockets, c1, events[x].id) /\ bound(sockets, c2, events[x].id))
        => sockets[c1].displayName # sockets[c2].displayName

\* C4: when two unbound connections could each join event e under the free
\* name n, then whichever joins first succeeds, the other then fails with the
\* name conflict, and exactly one of the two is bound to e under n.
C4_OneOfTwoJoinsWins ==
    \A c1 \in Conns, c2 \in Conns, x \in DOMAIN events, n \in Names :
        LET e == events[x].id
            S1 == JoinSockets(sockets, c1, e, n)
            E1 == JoinEvents(sockets, events, c1, e, n)
        IN  (/\ c1 # c2
             /\ sockets[c1].connected /\ ~sockets[c1].nameLocked
             /\ sockets[c2].connected /\ ~sockets[c2].nameLocked
             /\ n \notin events[x].participants
             /\ \A c \in {c1, c2} :
                   /\ Truthy(sockets[c].paymentProfile)
                   /\ sockets[c].role = "bidder"
                   /\ ~events[x].isProtected)
            => /\ JoinError(sockets, events, c1, e, n, "") = ""
               /\ JoinError(S1, E1, c2, e, n, "") = ErrNameConflict
               /\ n \in getEventIn(E1, e).participants
               /\ bound(S1, c1, e) /\ S1[c1].displayName = n
               /\ ~bound(S1, c2, e)

C4_ConflictSeen ==
    \E c1 \in Conns, c2 \in Conns :
        /\ c1 # c2
        /\ ack = Fail("event:join", c2, NullId, ErrNameConflict)
        /\ ~sockets[c2].nameLocked
        /\ \E x \in DOMAIN events :
              /\ bound(sockets, c1, events[x].id)
              /\ sockets[c1].displayName \in events[x].participants

\* C5: while a connection stays bound to an event its display name does not
\* change, and a join refused as a name change changes nothing.
C5_NameImmutableWhileBound ==
    [][\A c \in Conns :
          /\ (sockets[c].connected /\ sockets[c].nameLocked /\ sockets'[c].connected
              /\ sockets'[c].eventId = sockets[c].eventId)
             => sockets'[c].displayName = sockets[c].displayName
          /\ (/\ ack' = Fail("event:join", c, NullId, ErrNameChangeDenied)
              /\ \E e \in 1..MaxEvents, n \in NameInputs : EventJoin(c, e, n, ""))
             => UNCHANGED <<events, sockets>>]_vars

\* C6: when a bound connection leaves its event (disconnect, or join of
\* another event), no name is left in that event's participant set without
\* a live connection bound to the event, and the name of every other
\* connection still bound to the event stays in the set.
C6_LeaveReleasesExactlyOwnName ==
    [][\A c \in Conns, x \in DOMAIN events :
          LET e == events[x].id
          IN  (bound(sockets, c, e) /\ ~bound(sockets', c, e))
              => /\ \A n \in events'[x].participants :
                       \E d \in Conns \ {c} : bound(sockets', d, e)
                 /\ \A d \in Conns \ {c} :
                       (bound(sockets', d, e) /\ sockets[d].displayName \in events[x].participants)
                       => sockets'[d].displayName \in events'[x].participants]_vars

\* C7: in a step taken when an item's deadline has been reached (now >=
\* endTime) no bid is applied to it, and a placeBid that gets to the deadline
\* check closes the item and fails with the window-closed error.
C7_NoBidAtOrAfterDeadline ==
    [][\A x \in DOMAIN events : \A y \in DOMAIN events[x].items :
          LET ev == events[x]
              it == events[x].items[y]
              it2 == events'[x].items[y]
          IN  (TruthyTime(it.endTime) /\ now >= it.endTime)
              => /\ it2.currentBid = it.currentBid
                 /\ it2.currentWinner = it.currentWinner
                 /\ it2.bidHistory = it.bidHistory
                 /\ \A c \in Conns, a \in AmountInputs :
                       BidReachesDeadlineCheck(c, ev, it, a)
                       => /\ it2.status = "closed"
                          /\ ack' = Fail("placeBid", c, it.id, ErrWindowClosed)]_vars

C7_WindowClosedSeen ==
    \E x \in DOMAIN events : \E y \in DOMAIN events[x].items :
        /\ ack.op = "placeBid" /\ ack.error = ErrWindowClosed
        /\ ack.item = events[x].items[y].id
        /\ events[x].items[y].status = "closed"
        /\ events[x].items[y].bidHistory # <<>>

\* an item on which a bid arriving at time t would get past the status and
\* deadline checks
biddableAt(it, t) == it.status = "open" /\ ~(TruthyTime(it.endTime) /\ t >= it.endTime)

\* C8 as stated: once the deadline of an open item has passed, no step lets
\* the item be open and accept a bid again.
C8_ExpiredNeverBiddableAgain ==
    [][\A x \in DOMAIN events : \A y \in DOMAIN events[x].items :
          LET it == events[x].items[y]
              it2 == events'[x].items[y]
          IN  (it.status = "open" /\ TruthyTime(it.endTime) /\ now >= it.endTime)
              => ~biddableAt(it2, now')]_vars

\* C8 as amended: once the deadline of an open item has passed, a bid that
\* gets to the deadline check is rejected as window-closed and closes the
\* item, a sweep tick closes it, and the item cannot accept a bid again
\* unless the host issues startTimer, stopTimer or reopen on it.
C8_ExpiredShutUntilHostActs ==
    [][\A x \in DOMAIN events : \A y \in DOMAIN events[x].items :
          LET ev == events[x]
              it == events[x].items[y]
              it2 == events'[x].items[y]
              hostActs == \E c \in Conns :
                             \/ \E d \in DurationInputs : StartTimer(c, ev.id, it.id, d)
                             \/ StopTimer(c, ev.id, it.id)
                             \/ Reopen(c, ev.id, it.id)
          IN  (it.status = "open" /\ TruthyTime(it.endTime) /\ now >= it.endTime)
              => /\ \A c \in Conns, a \in AmountInputs :
                       BidReachesDeadlineCheck(c, ev, it, a)
                       => /\ it2.status = "closed"
                          /\ ack' = Fail("placeBid", c, it.id, ErrWindowClosed)
                 /\ sweptItem(it).status = "closed"
                 /\ Sweep => it2.status = "closed"
                 /\ ~hostActs => ~biddableAt(it2, now')]_vars

C8_ClosedBySweep ==
    \E x \in DOMAIN events : \E y \in DOMAIN events[x].items :
        /\ events[x].items[y].status = "closed"
        /\ \E c \in Conns : ack = Ok("host:startTimer", c, events[x].items[y].id)

\* C9: a successful markSold of an item with a current winner leaves the
\* payment pending for that winner with a deadline after the current time;
\* a successful reopen leaves the item open with the payment fields reset.
C9_SoldOpensWindowReopenResets ==
    [][\A x \in DOMAIN events : \A y \in DOMAIN events[x].items : \A c \in Conns :
          LET ev == events[x]
              it == events[x].items[y]
              it2 == events'[x].items[y]
          IN  /\ (MarkSold(c, ev.id, it.id) /\ ack'.ok /\ it.currentWinner # Null)
                 => /\ it2.status = "sold"
                    /\ it2.paymentStatus = "pending"
                    /\ it2.paymentWinnerName = it.currentWinner
                    /\ it2.paymentDueAt > now
              /\ (Reopen(c, ev.id, it.id) /\ ack'.ok)
                 => /\ it2.status = "open"
                    /\ it2.paymentStatus = "none"
                    /\ it2.paymentDueAt = NullTime
                    /\ it2.paymentWinnerName = Null]_vars

C9_WindowOpened ==
    \E x \in DOMAIN events : \E y \in DOMAIN events[x].items :
        /\ \E c \in Conns : ack = Ok("host:markSold", c, events[x].items[y].id)
        /\ events[x].items[y].paymentStatus = "pending"
        /\ events[x].items[y].paymentDueAt = now + PaymentWindowMs

\* C10: a payment:confirm succeeds exactly when the payment is pending, the
\* caller is the connection bound to that event under paymentWinnerName, and
\* now <= paymentDueAt.
C10_OnlyBoundWinnerConfirms ==
    [][\A x \in DOMAIN events : \A y \in DOMAIN events[x].items : \A c \in Conns :
          LET ev == events[x]
              it == events[x].items[y]
          IN  PaymentConfirm(c, ev.id, it.id)
              => (ack'.ok <=> /\ it.paymentStatus = "pending"
                              /\ bound(sockets, c, ev.id)
                              /\ sockets[c].displayName = it.paymentWinnerName
                              /\ now <= it.paymentDueAt)]_vars

\* C11: a payment:confirm made on a pending item after its payment deadline
\* (now > paymentDueAt) fails and leaves the payment expired, whichever
\* connection makes it.
C11_LateConfirmExpires ==
    [][\A x \in DOMAIN events : \A y \in DOMAIN events[x].items : \A c \in Conns :
          LET ev == events[x]
              it == events[x].items[y]
              it2 == events'[x].items[y]
          IN  (/\ it.status = "sold" /\ it.paymentStatus = "pending"
               /\ TruthyTime(it.paymentDueAt) /\ now > it.paymentDueAt
               /\ PaymentConfirm(c, ev.id, it.id))
              => /\ ~ack'.ok
                 /\ it2.paymentStatus = "expired"]_vars

\* C12: an item that is open or closed has no payment sub-state: payment
\* status none, no payment deadline, no payment winner.
C12_PaymentOnlyWhileSold ==
    \A x \in DOMAIN events : \A y \in DOMAIN events[x].items :
        LET it == events[x].items[y]
        IN  it.status \in {"open", "closed"}
            => /\ it.paymentStatus = "none"
               /\ it.paymentDueAt = NullTime
               /\ it.paymentWinnerName = Null

C12_ReopenedAfterSale ==
    \E x \in DOMAIN events : \E y \in DOMAIN events[x].items :
        /\ \E c \in Conns : ack = Ok("host:reopen", c, events[x].items[y].id)
        /\ events[x].items[y].status = "open"
        /\ events[x].items[y].currentWinner # Null
        /\ events[x].items[y].paymentStatus = "none"

\* C13: a markSold on an item that is not open (closed, or already sold)
\* fails and leaves the item unchanged.
C13_SoldOnlyFromOpen ==
    [][\A x \in DOMAIN events : \A y \in DOMAIN events[x].items : \A c \in Conns :
          LET ev == events[x]
              it == events[x].items[y]
              it2 == events'[x].items[y]
          IN  (it.status # "open" /\ MarkSold(c, ev.id, it.id))
              => /\ ~ack'.ok
                 /\ it2 = it]_vars

\* C14: a host-only operation sent by a connection whose role is not the
\* host (admin) role fails and changes no state, whatever the payload holds.
C14_HostOnlyByRole ==
    [][\A c \in Conns, t \in PayloadTokens :
          (sockets[c].role # "admin" /\ AdminAction(c, t))
          => /\ ~ack'.ok
             /\ UNCHANGED <<events, nextItemId, sockets>>]_vars

\* C15: a placeBid or a payment:confirm succeeds only for a connection whose
\* role is bidder at the time of the command.
C15_BidderOnlyCommands ==
    [][\A x \in DOMAIN events : \A y \in DOMAIN events[x].items : \A c \in Conns :
          LET ev == events[x]
              it == events[x].items[y]
          IN  /\ ((\E a \in AmountInputs : PlaceBid(c, ev.id, it.id, a, "")) /\ ack'.ok)
                 => sockets[c].role = "bidder"
              /\ (PaymentConfirm(c, ev.id, it.id) /\ ack'.ok)
                 => sockets[c].role = "bidder"]_vars

\* a command other than auth and events:list sent by connection c
SessionCommand(c) ==
    \/ \E n \in NameInputs : ProfileSetup(c, n, "a@b")
    \/ CreateEvent(c, "Gala", "Hall", FALSE, "")
    \/ \E e \in 1..MaxEvents, n \in NameInputs : EventJoin(c, e, n, "")
    \/ \E e \in 1..MaxEvents, i \in 1..MaxItems, a \in AmountInputs : PlaceBid(c, e, i, a, "")
    \/ \E e \in 1..MaxEvents, i \in 1..MaxItems : PaymentConfirm(c, e, i)

\* C16: no command sent by a connection whose role is guest succeeds or
\* changes an event, an item or the connection's own session fields.
C16_GuestChangesNothing ==
    [][\A c \in Conns :
          (sockets[c].connected /\ sockets[c].role = "guest" /\ SessionCommand(c))
          => /\ ~ack'.ok
             /\ UNCHANGED events
             /\ sockets'[c] = sockets[c]]_vars

\* a command sent by some connection (every handler except disconnect)
AnyCommand ==
    \E c \in Conns :
        \/ \E r \in {"host", "bidder", "guest"}, t \in TokenInputs : Auth(c, r, t)
        \/ SessionCommand(c)
        \/ \E e \in 1..MaxEvents, v \in IncrementInputs : SetMinIncrement(c, e, v)
        \/ \E e \in 1..MaxEvents, o \in OpeningInputs : CreateItem(c, e, "Lot", o)
        \/ \E e \in 1..MaxEvents, i \in 1..MaxItems :
              \/ \E d \in DurationInputs : StartTimer(c, e, i, d)
              \/ StopTimer(c, e, i)
              \/ MarkSold(c, e, i)
              \/ Reopen(c, e, i)

SumLeq(x, y, a) == x.k + y.k < a.k \/ (x.k + y.k = a.k /\ x.f + y.f <= a.f)

\* C18: with minIncrement m > 0, a bid that passes the role, binding, status,
\* deadline and positive-amount checks is accepted exactly when amount >=
\* max(openingBid, currentBid) + m; a refused bid is refused as below the
\* increment and leaves the item unchanged.
C18_IncrementRule ==
    [][\A x \in DOMAIN events : \A y \in DOMAIN events[x].items :
       \A c \in Conns, a \in AmountInputs :
          LET ev == events[x]
              it == events[x].items[y]
              it2 == events'[x].items[y]
          IN  (/\ FlLess(Zero, ev.minIncrement)
               /\ ~(TruthyTime(it.endTime) /\ now >= it.endTime)
               /\ FlLess(Zero, a)
               /\ BidReachesDeadlineCheck(c, ev, it, a))
              => /\ ack'.ok <=> SumLeq(FlMax(it.openingBid, it.currentBid), ev.minIncrement, a)
                 /\ ack'.ok => /\ it2.currentBid = a
                               /\ it2.currentWinner = sockets[c].displayName
                 /\ ~ack'.ok => /\ ack'.error = ErrBidTooLowIncrement
                                /\ it2 = it]_vars

C18_BelowIncrementSeen ==
    \E x \in DOMAIN events : \E y \in DOMAIN events[x].items :
        /\ ack.op = "placeBid" /\ ack.error = ErrBidTooLowIncrement
        /\ ack.item = events[x].items[y].id
        /\ FlLess(Zero, events[x].minIncrement)
        /\ events[x].items[y].bidHistory # <<>>
        /\ FlLess(events[x].items[y].openingBid, events[x].items[y].currentBid)

\* C19: the ledger of every item is strictly increasing in amount and
\* non-decreasing in time, and it changes only by a successful placeBid,
\* which appends one entry and leaves the earlier ones as they were.
C19_LedgerAppendOnlyIncreasing ==
    [][\A x \in DOMAIN events : \A y \in DOMAIN events[x].items :
          LET h == events[x].items[y].bidHistory
              h2 == events'[x].items[y].bidHistory
          IN  /\ \A j \in 1..Len(h2), k \in 1..Len(h2) :
                    j < k => /\ FlLess(h2[j].amount, h2[k].amount)
                             /\ h2[j].time <= h2[k].time
              /\ h2 # h => /\ ack'.op = "placeBid" /\ ack'.ok
                           /\ Len(h2) = Len(h) + 1
                           /\ SubSeq(h2, 1, Len(h)) = h]_vars

\* C20: currentBid >= openingBid for every item, and currentBid and
\* currentWinner are changed only by a successful placeBid on the item.
C20_PriceMovedOnlyByBids ==
    [][\A x \in DOMAIN events' : \A y \in DOMAIN events'[x].items :
          LET it2 == events'[x].items[y]
          IN  /\ FlLeq(it2.openingBid, it2.currentBid)
              /\ (x \in DOMAIN events /\ y \in DOMAIN events[x].items)
                 => LET it == events[x].items[y]
                    IN  (it2.currentBid # it.currentBid \/ it2.currentWinner # it.currentWinner)
                        => /\ ack' = Ok("placeBid", ack'.conn, it.id)
                           /\ Len(it2.bidHistory) = Len(it.bidHistory) + 1
                           /\ it2.openingBid = it.openingBid]_vars

C20_BidKeptThroughReopen ==
    \E x \in DOMAIN events : \E y \in DOMAIN events[x].items :
        /\ ack.op = "host:reopen" /\ ack.ok /\ ack.item = events[x].items[y].id
        /\ FlLess(events[x].items[y].openingBid, events[x].items[y].currentBid)
        /\ events[x].items[y].currentWinner # Null
        /\ Len(events[x].items[y].bidHistory) = MaxBids

\* C21: the currentLotId of every event is null or the id of an item of that
\* event, and a host's setCurrentLot of an existing event with a non-null
\* itemId that is not an item of that event fails as not found and leaves
\* the events unchanged.
C21_CurrentLotOwned ==
    [][/\ \A x \in DOMAIN events' :
             \/ events'[x].currentLotId = NullId
             \/ \E y \in DOMAIN events'[x].items :
                   events'[x].items[y].id = events'[x].currentLotId
       /\ \A c \in Conns, x \in DOMAIN events, i \in 1..(MaxItems + 1) :
             (/\ sockets[c].role = "host"
              /\ \A y \in DOMAIN events[x].items : events[x].items[y].id # i
              /\ SetCurrentLot(c, events[x].id, i))
             => /\ ack' = Fail("host:setCurrentLot", c, i, "Item not found")
                /\ UNCHANGED events]_vars

C21_ForeignLotRefused ==
    \E x \in DOMAIN events, z \in DOMAIN events :
        /\ x # z
        /\ \E y \in DOMAIN events[z].items :
              /\ ack = Fail("host:setCurrentLot", "c1", events[z].items[y].id, "Item not found")
              /\ events[z].currentLotId = events[z].items[y].id
        /\ events[x].currentLotId = NullId

\* C22: paymentWinnerName is non-null only while paymentStatus is not none,
\* a payment that is not none names its winner, and the name is the item's
\* currentWinner; a markSold that opens a window captures currentWinner.
C22_PaymentWinnerIsLeader ==
    [][\A x \in DOMAIN events' : \A y \in DOMAIN events'[x].items :
          LET it2 == events'[x].items[y]
          IN  /\ it2.paymentWinnerName # Null => it2.paymentStatus # "none"
              /\ it2.paymentStatus # "none" => /\ it2.paymentWinnerName # Null
                                               /\ it2.paymentWinnerName = it2.currentWinner
              /\ \A c \in Conns :
                    (/\ x \in DOMAIN events /\ y \in DOMAIN events[x].items
                     /\ MarkSold(c, events[x].id, it2.id) /\ ack'.ok
                     /\ events[x].items[y].currentWinner # Null)
                    => it2.paymentWinnerName = events[x].items[y].currentWinner]_vars

C22_ConfirmedForWinner ==
    \E x \in DOMAIN events : \E y \in DOMAIN events[x].items :
        /\ ack.op = "payment:confirm" /\ ack.ok /\ ack.item = events[x].items[y].id
        /\ events[x].items[y].paymentStatus = "confirmed"
        /\ events[x].items[y].paymentWinnerName = "Alice"
        /\ events[x].items[y].currentWinner = "Alice"

\* C23: for every event, protected or not, neither the events:list entry
\* (also sent as eventsUpdated), nor the host:createEvent acknowledgment,
\* nor the event:join acknowledgment has a password field.
C23_PasswordNeverSent ==
    \A x \in DOMAIN events :
        LET ev == events[x]
        IN  /\ Truthy(ev.password) <=> ev.isProtected
            /\ "password" \notin DOMAIN listingView(ev)
            /\ "password" \notin DOMAIN createdView(ev)
            /\ "password" \notin DOMAIN joinedView(ev)
            /\ "password" \notin DOMAIN joinedView(ev).event
            /\ \A y \in DOMAIN joinedView(ev).items :
                  "password" \notin DOMAIN joinedView(ev).items[y]

C23_ProtectedEventJoined ==
    \E x \in DOMAIN events, c \in Conns :
        /\ events[x].isProtected /\ events[x].password = "pw"
        /\ ack = Ok("event:join", c, NullId)
        /\ bound(sockets, c, events[x].id)
        /\ events[x].items # <<>>

\* C24: a connection's role becomes the host (admin) role only by an auth
\* that supplies the site-wide secret, and an auth for that role with a
\* wrong secret fails and leaves the connection's role as it was.
C24_HostRoleOnlyBySecret ==
    [][\A c \in Conns :
          /\ (sockets'[c].role = "admin" /\ sockets[c].role # "admin")
             => AuthSingle(c, "admin", ADMIN_TOKEN)
          /\ \A t \in TokenInputs \ {ADMIN_TOKEN} :
                AuthSingle(c, "admin", t)
                => /\ ~ack'.ok
                   /\ sockets'[c].role = sockets[c].role]_vars

\* C25: a host's startTimer on an item fails and leaves the deadline as it
\* was when the item is not open or the duration is not greater than 0
\* (0 included); otherwise it succeeds, sets the deadline to now plus the
\* supplied duration and changes nothing else.
C25_StartTimerValidates ==
    [][\A x \in DOMAIN events : \A y \in DOMAIN events[x].items :
       \A c \in Conns, d \in DurationInputs :
          LET it == events[x].items[y]
              it2 == events'[x].items[y]
          IN  (sockets[c].role = "host" /\ StartTimer(c, events[x].id, it.id, d))
              => IF it.status # "open" \/ d <= 0
                 THEN ~ack'.ok /\ it2 = it
                 ELSE /\ ack'.ok
                      /\ it2 = [it EXCEPT !.endTime = now + d * MsPerSecond]]_vars

\* C26: a host's stopTimer on an item succeeds whatever the item's status,
\* leaves its deadline null and changes no other field of the item.
C26_StopTimerAnyStatus ==
    [][\A x \in DOMAIN events : \A y \in DOMAIN events[x].items : \A c \in Conns :
          LET it == events[x].items[y]
              it2 == events'[x].items[y]
          IN  (sockets[c].role = "host" /\ StopTimer(c, events[x].id, it.id))
              => /\ ack'.ok
                 /\ it2 = [it EXCEPT !.endTime = NullTime]]_vars

C26_StoppedWhileSold ==
    \E x \in DOMAIN events : \E y \in DOMAIN events[x].items :
        /\ ack.op = "host:stopTimer" /\ ack.ok /\ ack.item = events[x].items[y].id
        /\ events[x].items[y].status = "sold"
        /\ events[x].items[y].paymentStatus = "pending"
        /\ events[x].items[y].endTime = NullTime

\* an open item y of event x whose deadline has passed
expiredOpen(x, y) ==
    /\ x \in DOMAIN events /\ y \in DOMAIN events[x].items
    /\ events[x].items[y].status = "open"
    /\ TruthyTime(events[x].items[y].endTime) /\ now >= events[x].items[y].endTime

\* C27: a sweep tick closes every open item whose deadline is <= now and
\* clears its deadline, expires every pending payment of a sold item whose
\* paymentDueAt is < now, and changes nothing else; and an open item whose
\* deadline has passed does not stay so forever: the sweep closes it unless
\* another command changes it first.
C27_SweepClosesAndExpires ==
    /\ [][Sweep =>
            /\ UNCHANGED <<now, nextEventId, nextItemId, sockets, ack>>
            /\ DOMAIN events' = DOMAIN events
            /\ \A x \in DOMAIN events :
                  /\ DOMAIN events'[x].items = DOMAIN events[x].items
                  /\ [events'[x] EXCEPT !.items = events[x].items] = events[x]
                  /\ \A y \in DOMAIN events[x].items :
                        LET it == events[x].items[y]
                            it2 == events'[x].items[y]
                        IN  IF it.status = "open" /\ TruthyTime(it.endTime) /\ it.endTime <= now
                            THEN it2 = [it EXCEPT !.status = "closed", !.endTime = NullTime]
                            ELSE IF it.status = "sold" /\ it.paymentStatus = "pending"
                                    /\ TruthyTime(it.paymentDueAt) /\ it.paymentDueAt < now
                            THEN it2 = [it EXCEPT !.paymentStatus = "expired"]
                            ELSE it2 = it]_vars
    /\ \A x \in 1..AuctionEvents, y \in 1..MaxItems :
          expiredOpen(x, y) ~> ~expiredOpen(x, y)

C27_ExpiredBySweep ==
    \E x \in DOMAIN events : \E y \in DOMAIN events[x].items :
        /\ ack.op = "host:markSold" /\ ack.ok /\ ack.item = events[x].items[y].id
        /\ events[x].items[y].status = "sold"
        /\ events[x].items[y].paymentStatus = "expired"

\* C28: the sweep's pass over an event emits the items broadcast to that
\* event's room exactly once when the tick changes at least one item of the
\* event, however many, and not at all when it changes none.
C28_OneBroadcastPerChangedEvent ==
    \A x \in DOMAIN events :
        LET ev == events[x]
            changed == {y \in DOMAIN ev.items : sweptItem(ev.items[y]) # ev.items[y]}
        IN  /\ Len(sweepEmits(ev)) = IF changed = {} THEN 0 ELSE 1
            /\ \A k \in DOMAIN sweepEmits(ev) :
                  /\ sweepEmits(ev)[k].room = ev.id
                  /\ sweepEmits(ev)[k].items =
                        [y \in DOMAIN ev.items |-> sweptItem(ev.items[y])]

C28_TwoItemsDueInOneTick ==
    \E x \in DOMAIN events :
        /\ Cardinality({y \in DOMAIN events[x].items :
                           sweptItem(events[x].items[y]) # events[x].items[y]}) >= 2
        /\ \E y \in DOMAIN events[x].items :
              sweptItem(events[x].items[y]).status = "closed" /\ events[x].items[y].status = "open"
        /\ \E y \in DOMAIN events[x].items :
              sweptItem(events[x].items[y]).paymentStatus = "expired"
              /\ events[x].items[y].paymentStatus = "pending"
        /\ Len(sweepEmits(events[x])) = 1

\* C29: the payment status of an item changes only along none -> pending,
\* pending -> confirmed, pending -> expired and any -> none; a confirmed or
\* expired payment does not become pending in one step, and while a payment
\* stays pending its deadline stays the same.
C29_PaymentEdges ==
    [][\A x \in DOMAIN events : \A y \in DOMAIN events[x].items :
          LET it == events[x].items[y]
              it2 == events'[x].items[y]
          IN  /\ it2.paymentStatus # it.paymentStatus
                 => \/ it.paymentStatus = "none" /\ it2.paymentStatus = "pending"
                    \/ it.paymentStatus = "pending" /\ it2.paymentStatus \in {"confirmed", "expired"}
                    \/ it2.paymentStatus = "none"
              /\ (it.paymentStatus = "pending" /\ it2.paymentStatus = "pending")
                 => it2.paymentDueAt = it.paymentDueAt]_vars

\* C30: a placeBid that is accepted finds the item with payment status none
\* and leaves its payment fields none, null and null.
C30_BidFindsNoPayment ==
    [][\A c \in Conns, x \in DOMAIN events, a \in AmountInputs :
          \A y \in DOMAIN events[x].items :
             (/\ PlaceBid(c, events[x].id, events[x].items[y].id, a, "")
              /\ ack'.ok)
             => /\ events[x].items[y].paymentStatus = "none"
                /\ events'[x].items[y].paymentStatus = "none"
                /\ events'[x].items[y].paymentDueAt = NullTime
                /\ events'[x].items[y].paymentWinnerName = Null
                /\ Len(events'[x].items[y].bidHistory) =
                      Len(events[x].items[y].bidHistory) + 1]_vars

C30_LaterBidAccepted ==
    \E x \in DOMAIN events : \E y \in DOMAIN events[x].items :
        /\ ack.op = "placeBid" /\ ack.ok /\ ack.item = events[x].items[y].id
        /\ events[x].items[y].status = "open"
        /\ events[x].items[y].paymentStatus = "none"
        /\ Len(events[x].items[y].bidHistory) = MaxBids
        /\ events[x].items[y].bidHistory[1].time < events[x].items[y].bidHistory[MaxBids].time

\* C31: an accepted bid is recorded, in the ledger and as currentWinner,
\* under a name that is in the participant set of the item's event when the
\* bid is committed, and that no other connection bound to the event holds.
C31_BidUnderJoinedName ==
    [][\A c \in Conns, x \in DOMAIN events : \A y \in DOMAIN events[x].items :
          (/\ PlaceBid(c, events[x].id, events[x].items[y].id, D(2, 0), "")
           /\ ack'.ok)
          => LET it2 == events'[x].items[y]
                 n == it2.currentWinner
             IN  /\ it2.bidHistory[Len(it2.bidHistory)].name = n
                 /\ n \in events[x].participants
                 /\ \A d \in Conns \ {c} :
                       ~(bound(sockets, d, events[x].id) /\ sockets[d].displayName = n)]_vars

\* C32: in every reachable state an item with a non-null bidding deadline has
\* status open: closed and sold items have deadline null.
C32_DeadlineOnlyWhileOpen ==
    \A x \in DOMAIN events : \A y \in DOMAIN events[x].items :
        TruthyTime(events[x].items[y].endTime) => events[x].items[y].status = "open"

C32_SoldWithoutDeadline ==
    \E x \in DOMAIN events : \E y \in DOMAIN events[x].items :
        /\ ack = Ok("host:markSold", ack.conn, events[x].items[y].id)
        /\ events[x].items[y].status = "sold"
        /\ events[x].items[y].endTime = NullTime
        /\ events[x].items[y].currentWinner = Null
        /\ now > StartTime

\* C33: in every reachable state the head fields of an item agree with its
\* ledger: with an empty ledger currentBid = openingBid and currentWinner is
\* null; otherwise currentBid and currentWinner are the amount and the name
\* of the last ledger entry.
C33_HeadAgreesWithLedger ==
    \A x \in DOMAIN events : \A y \in DOMAIN events[x].items :
        LET it == events[x].items[y]
            h == it.bidHistory
        IN  IF h = <<>>
            THEN it.currentBid = it.openingBid /\ it.currentWinner = Null
            ELSE it.currentBid = h[Len(h)].amount /\ it.currentWinner = h[Len(h)].name

C33_LedgerOfTwoBids ==
    \E x \in DOMAIN events : \E y \in DOMAIN events[x].items :
        LET it == events[x].items[y]
        IN  /\ Len(it.bidHistory) = MaxBids
            /\ it.bidHistory[1].amount # it.bidHistory[MaxBids].amount
            /\ it.currentBid = it.bidHistory[MaxBids].amount
            /\ it.currentBid # it.openingBid
            /\ it.status = "sold"

\* a step that is a command of the two-event specification addressed to
\* event e other than a join, with any item id
AddressedTo(e) ==
    \/ \E c \in BidderConns, i \in 1..TwoEvents : PlaceBid(c, e, i, D(2, 0), "")
    \/ \E c \in HostConns : SetMinIncrement(c, e, D(1, 0))
    \/ \E c \in HostConns, i \in 1..TwoEvents : StartTimer(c, e, i, DefaultDurationSeconds)

pendingUntil(x, y, t) ==
    /\ x \in DOMAIN events /\ y \in DOMAIN events[x].items
    /\ events[x].items[y].paymentStatus = "pending"
    /\ events[x].items[y].paymentDueAt = t

\* C35: with the sweep running and the clock advancing, a payment that is
\* pending with a deadline the clock can pass does not stay pending with
\* that deadline forever: it becomes confirmed, expired or none, unless a
\* further markSold gives it a new deadline; and a sweep tick taken after
\* paymentDueAt expires it.
C35_PendingEventuallyLeaves ==
    /\ \A x \in 1..AuctionEvents, y \in 1..MaxItems :
          \A k \in 0..MaxTicks :
             LET t == StartTime + k * ClockStep + PaymentWindowMs
             IN  (t < MaxTime /\ pendingUntil(x, y, t)) ~> ~pendingUntil(x, y, t)
    /\ [][\A x \in DOMAIN events : \A y \in DOMAIN events[x].items :
             (/\ Sweep
              /\ events[x].items[y].paymentStatus = "pending"
              /\ now > events[x].items[y].paymentDueAt)
             => events'[x].items[y] = [events[x].items[y] EXCEPT !.paymentStatus = "expired"]]_vars

C35_OverdueExpired ==
    \E x \in DOMAIN events : \E y \in DOMAIN events[x].items :
        /\ ack = Ok("host:markSold", "c1", events[x].items[y].id)
        /\ events[x].items[y].paymentStatus = "expired"
        /\ now > events[x].items[y].paymentDueAt
        /\ events[x].items[y].paymentWinnerName = "Alice"
        /\ Len(events[x].items[y].bidHistory) = 1

====
